---- MODULE Spec2Model ----
(***************************************************************************)
(* Model of the image_similarity_scores package of the backend:            *)
(*   config.py               SimilarityConfig and its __post_init__        *)
(*   feature_extractors.py   the five extractors' calculate_similarity     *)
(*   similarity_calculator.py  ImageSimilarityCalculator                   *)
(*   comparison_analyzer.py  ComparisonAnalyzer                            *)
(* and of the HTTP workflow of main.py (/detect, /research_person,         *)
(* /criteria, /analyze) over the module-level DETECT_TASKS.                *)
(*                                                                         *)
(* Floats are fixed-point integers: a score, weight or threshold x is the  *)
(* integer x * One (One = 1.0, so one unit is 0.0001).  A weighted sum of  *)
(* score * weight products is kept exactly, in units of 1 / (One * One).   *)
(* What OpenCV computes from the pixels (correlations, match counts,       *)
(* distances, or a thrown cv2.error) is the variable cv, fixed by the      *)
(* files on disk; what the package computes from those values is           *)
(* translated from its code.                                               *)
(***************************************************************************)
EXTENDS Integers, Sequences, FiniteSets, TLC

VARIABLES
    config,   \* the SimilarityConfig held by the analyzer, calculator and extractors
    made,     \* outcome of the construction: "none", "ok" or "raised"
    cv,       \* what the OpenCV primitives yield on a decodable pair of files
    last,     \* the last public call: its arguments, what it invoked, what it returned
    DETECT_TASKS,  \* main.py's module-level dict: detection id -> task dict
    clients   \* per request thread: the request it is serving and where it stands

vars == <<config, made, cv, last, DETECT_TASKS, clients>>

\* 1.0 in fixed point (config.py:48 compares the weight sum with 1.0).
One == 10000

\* 0.001 in fixed point: the tolerance of the weight-sum check (config.py:48).
Tolerance == 10

\* 0.001 of a product of two fixed-point numbers: round(x, 3) keeps multiples of it.
Milli == (One * One) \div 1000

----------------------------------------------------------------------------
(* Arithmetic helpers: Python's abs, min, max, sum and round(x, 3).        *)

Abs(x) == IF x < 0 THEN -x ELSE x

Min2(a, b) == IF a < b THEN a ELSE b

Max2(a, b) == IF a > b THEN a ELSE b

\* max() of a non-empty list
MaxOf(s) == CHOOSE x \in {s[i] : i \in DOMAIN s} : \A j \in DOMAIN s : s[j] <= x

RECURSIVE SumSeq(_)
SumSeq(s) == IF s = <<>> THEN 0 ELSE Head(s) + SumSeq(Tail(s))

\* round(x, 3) of a value held in units of `unit` per 1.0 (round-half-even);
\* the result is in the same units, a multiple of unit/1000.
Round3(x, unit) ==
    LET step == unit \div 1000
        q    == x \div step
        r    == x % step
    IN  IF 2 * r < step THEN q * step
        ELSE IF 2 * r > step THEN (q + 1) * step
        ELSE IF q % 2 = 0 THEN q * step ELSE (q + 1) * step

----------------------------------------------------------------------------
(* config.py                                                               *)

\* The field defaults of the SimilarityConfig dataclass.
DEFAULT_FIELDS ==
    [ COLOR_WEIGHT |-> 5000, SIFT_WEIGHT |-> 1500, SSIM_WEIGHT |-> 2500,
      EDGE_WEIGHT |-> 1000, SHAPE_WEIGHT |-> 0,
      DEFAULT_MATCH_THRESHOLD |-> 6000,
      HIGH_CONFIDENCE_THRESHOLD |-> 7500,
      MEDIUM_CONFIDENCE_THRESHOLD |-> 4500 ]

total_weight(c) ==
    c.COLOR_WEIGHT + c.SIFT_WEIGHT + c.SSIM_WEIGHT + c.EDGE_WEIGHT + c.SHAPE_WEIGHT

\* (a weight check that lets a sum exactly 0.001 away from 1.0 through)
WeightCheckInclusive(c) == ~ (Abs(total_weight(c) - One) <= Tolerance)

\* __post_init__ raises ValueError on the weight check ...
WeightCheckRaises(c) == ~ (Abs(total_weight(c) - One) < Tolerance)

\* ... or on the match-threshold check; nothing else is validated.
ThresholdCheckRaises(c) ==
    ~ (0 <= c.DEFAULT_MATCH_THRESHOLD /\ c.DEFAULT_MATCH_THRESHOLD <= One)

PostInitRaises(c) == WeightCheckRaises(c) \/ ThresholdCheckRaises(c)

----------------------------------------------------------------------------
(* feature_extractors.py: each calculate_similarity, computed from what    *)
(* OpenCV returned for the pair.  A field `compare`/`ok` = FALSE is an      *)
(* exception thrown inside the corresponding try block.                    *)

\* (a Color score returned without the final max(0.0, .))
ColorSimilarityUnclamped(f) ==
    IF ~ f.compare THEN 0
    ELSE Min2(MaxOf(f.hsv), MaxOf(f.bgr))

\* (a Color score that averages the two colour spaces)
ColorSimilarityAverage(f) ==
    IF ~ f.compare THEN 0
    ELSE Max2(0, (MaxOf(f.hsv) + MaxOf(f.bgr)) \div 2)

\* ColorExtractor.calculate_similarity: f.bgr and f.hsv are the compareHist
\* correlations of the three native and the three HSV channel histograms.
ColorSimilarity(f) ==
    IF ~ f.compare THEN 0
    ELSE LET bgr_correlations == f.bgr
             hsv_correlations == f.hsv
             final_score ==
                 IF hsv_correlations # <<>> /\ bgr_correlations # <<>>
                 THEN Min2(MaxOf(hsv_correlations), MaxOf(bgr_correlations))
                 ELSE IF hsv_correlations # <<>> THEN MaxOf(hsv_correlations)
                 ELSE IF bgr_correlations # <<>> THEN MaxOf(bgr_correlations)
                 ELSE 0
         IN  Max2(0, final_score)

\* SIFTExtractor._apply_lowe_ratio_test: the number of knn pairs <<m, n>> with
\* m.distance < ratio * n.distance; a match with one neighbour is dropped.
apply_lowe_ratio_test(matches, ratio) ==
    Cardinality({ i \in DOMAIN matches :
                    /\ Len(matches[i]) = 2
                    /\ matches[i][1] * One < ratio * matches[i][2] })

\* One ratio-test strategy (FLANN or brute force) of SIFTExtractor: the list
\* it appends to `similarities`.
RatioStrategy(m, ratio, len1, len2) ==
    IF ~ m.ok THEN <<>>
    ELSE LET good == apply_lowe_ratio_test(m.matches, ratio)
             min_keypoints == Min2(len1, len2)
         IN  IF good > 0 THEN << Min2(One, (good * One) \div min_keypoints) >>
             ELSE <<>>

\* Strategy 3 of SIFTExtractor: 1 - avg_distance / max_possible_distance.
DistanceStrategy(d) ==
    IF ~ d.ok THEN <<>> ELSE << Max2(0, One - d.ratio) >>

\* The Lowe ratios of the config (config.py:21-22), in fixed point.
SIFT_LOWE_RATIO_FLANN == 6500

SIFT_LOWE_RATIO_BF == 6000

\* (a SIFT similarity without the guard on the descriptor counts)
SIFTSimilarity_unguarded(f) ==
    LET similarities ==
            RatioStrategy(f.flann, SIFT_LOWE_RATIO_FLANN, f.len1, f.len2)
            \o RatioStrategy(f.bf, SIFT_LOWE_RATIO_BF, f.len1, f.len2)
            \o DistanceStrategy(f.dist)
    IN  IF similarities # <<>> THEN MaxOf(similarities) ELSE 0

\* (a SIFT similarity built from the two ratio-test strategies only)
SIFTSimilarity_ratio_only(f) ==
    IF f.len1 < 2 \/ f.len2 < 2 THEN 0
    ELSE LET similarities ==
                 RatioStrategy(f.flann, SIFT_LOWE_RATIO_FLANN, f.len1, f.len2)
                 \o RatioStrategy(f.bf, SIFT_LOWE_RATIO_BF, f.len1, f.len2)
         IN  IF similarities # <<>> THEN MaxOf(similarities) ELSE 0

\* SIFTExtractor.calculate_similarity: f.len1, f.len2 are the descriptor
\* counts (0 when detectAndCompute returned None).
SIFTSimilarity(f) ==
    IF f.len1 < 2 \/ f.len2 < 2 THEN 0
    ELSE LET similarities ==
                 RatioStrategy(f.flann, SIFT_LOWE_RATIO_FLANN, f.len1, f.len2)
                 \o RatioStrategy(f.bf, SIFT_LOWE_RATIO_BF, f.len1, f.len2)
                 \o DistanceStrategy(f.dist)
         IN  IF similarities # <<>> THEN MaxOf(similarities) ELSE 0

\* SSIMExtractor.calculate_similarity: f.corr is matchTemplate's coefficient.
SSIMSimilarity(f) ==
    IF ~ f.compare THEN 0 ELSE Max2(0, f.corr)

\* One correlation sub-measure of EdgeExtractor (template or histogram).
EdgeMethod(m) == IF ~ m.ok THEN <<>> ELSE << Max2(0, m.v) >>

\* (an edge similarity with one try around all three sub-measures: any throw
\* gives 0.0)
EdgeSimilarity_one_try(f) ==
    LET density_similarity == One - Abs(f.density1 - f.density2)
    IN  IF f.tm.ok /\ f.hist.ok /\ f.densityOk
        THEN MaxOf(<< Max2(0, f.tm.v), Max2(0, f.hist.v), Max2(0, density_similarity) >>)
        ELSE 0

\* EdgeExtractor.calculate_similarity: the maximum of the sub-measures that
\* did not throw; density1, density2 are the shares of edge pixels.
EdgeSimilarity(f) ==
    LET density_similarity == One - Abs(f.density1 - f.density2)
        similarities ==
            EdgeMethod(f.tm) \o EdgeMethod(f.hist)
            \o (IF f.densityOk THEN << Max2(0, density_similarity) >> ELSE <<>>)
    IN  IF similarities # <<>> THEN MaxOf(similarities) ELSE 0

\* ShapeExtractor.calculate_similarity: f.len1, f.len2 are the lengths of the
\* Hu-moment vectors (0 for "no contour"), f.distance their Euclidean distance.
ShapeSimilarity(f) ==
    IF f.len1 = 0 \/ f.len2 = 0 THEN 0
    ELSE Min2(One, (One * One) \div (One + f.distance))

----------------------------------------------------------------------------
(* The files on disk.  os.path.exists and cv2.imread only read them.       *)

Paths == {"ref.jpg", "candidate.jpg", "notimage.txt", "does_not_exist.jpg"}

\* os.path.exists(path)
exists(path) == path # "does_not_exist.jpg"

\* cv2.imread(path) is not None: the file exists and decodes as an image.
imread(path) == path \in {"ref.jpg", "candidate.jpg"}

----------------------------------------------------------------------------
(* similarity_calculator.py                                                *)

\* _load_and_preprocess_images returns two buffers (TRUE) or (None, None).
load_and_preprocess_images(path1, path2) ==
    IF ~ exists(path1) THEN FALSE
    ELSE IF ~ exists(path2) THEN FALSE
    ELSE IF ~ imread(path1) \/ ~ imread(path2) THEN FALSE
    ELSE cv.resize          \* cv2.resize threw: the except returns (None, None)

\* _calculate_all_similarities: the list of (name, score, weight), or a raise
\* out of an extract_features call, none of which is guarded here
\* (ShapeExtractor.extract_features catches its own exceptions).
calculate_all_similarities(c) ==
    IF ~ cv.Color.extract \/ ~ cv.SIFT.extract \/ ~ cv.SSIM.extract \/ ~ cv.Edge.extract
    THEN [raised |-> TRUE, similarities |-> <<>>]
    ELSE [raised |-> FALSE,
          similarities |->
            << <<"Color", ColorSimilarity(cv.Color), c.COLOR_WEIGHT>>,
               <<"SIFT",  SIFTSimilarity(cv.SIFT),   c.SIFT_WEIGHT>>,
               <<"SSIM",  SSIMSimilarity(cv.SSIM),   c.SSIM_WEIGHT>>,
               <<"Edge",  EdgeSimilarity(cv.Edge),   c.EDGE_WEIGHT>>,
               <<"Shape", ShapeSimilarity(cv.Shape), c.SHAPE_WEIGHT>> >>]

\* sum(score * weight for _, score, weight in similarities)
total_score(similarities) ==
    SumSeq([i \in DOMAIN similarities |-> similarities[i][2] * similarities[i][3]])

\* min(1.0, max(0.0, total_score))
Clamp01(total) == Min2(One * One, Max2(0, total))

\* (a calculator that weighs with the module's DEFAULT_CONFIG, not its own config)
calculate_similarity_default_weights(c, path1, path2) ==
    IF ~ load_and_preprocess_images(path1, path2) THEN 0
    ELSE LET r == calculate_all_similarities(DEFAULT_FIELDS)
         IN  IF r.raised THEN 0
             ELSE Clamp01(total_score(r.similarities))

\* calculate_similarity: the float it returns, in units of 1 / (One * One).
calculate_similarity(c, path1, path2) ==
    IF ~ load_and_preprocess_images(path1, path2) THEN 0
    ELSE LET r == calculate_all_similarities(c)
         IN  IF r.raised THEN 0          \* except Exception: return 0.0
             ELSE Clamp01(total_score(r.similarities))

\* The keys and entries of a dict built from the (name, score, weight) list.
Names(similarities) == { similarities[i][1] : i \in DOMAIN similarities }

Entry(similarities, n) ==
    similarities[CHOOSE i \in DOMAIN similarities : similarities[i][1] = n]

\* (a detailed analysis that reports the calculator's 0.0 instead of an error)
get_detailed_analysis_no_error(c, path1, path2) ==
    LET similarity_score == calculate_similarity(c, path1, path2)
        r == calculate_all_similarities(c)
        sims == IF load_and_preprocess_images(path1, path2) THEN r.similarities ELSE <<>>
    IN  [similarity_score |-> Round3(similarity_score, One * One),
         individual_scores |-> [n \in Names(sims) |-> Round3(Entry(sims, n)[2], One)],
         weights |-> [n \in Names(sims) |-> Entry(sims, n)[3]]]

\* get_detailed_analysis: an {"error": ...} dict or the analysis dict.
get_detailed_analysis(c, path1, path2) ==
    IF ~ imread(path1) \/ ~ imread(path2)
    THEN [error |-> "Could not load images"]
    ELSE LET similarity_score == calculate_similarity(c, path1, path2)
             r == calculate_all_similarities(c)
         IN  IF ~ load_and_preprocess_images(path1, path2) \/ r.raised
             THEN [error |-> "Analysis failed"]   \* cvtColor(None) or an extractor threw
             ELSE [similarity_score |-> Round3(similarity_score, One * One),
                   individual_scores |->
                       [n \in Names(r.similarities) |->
                           Round3(Entry(r.similarities, n)[2], One)],
                   weights |->
                       [n \in Names(r.similarities) |-> Entry(r.similarities, n)[3]]]

----------------------------------------------------------------------------
(* config.py, module level: interpretation bands and confidence levels.    *)
(* Scores are in units of 1 / (One * One).                                 *)

\* SIMILARITY_INTERPRETATIONS, in dict order: label, min_score, max_score.
SIMILARITY_INTERPRETATIONS ==
    << <<"Very High", 7500, One>>, <<"High", 6000, 7500>>, <<"Medium", 4000, 6000>>,
       <<"Low", 2500, 4000>>, <<"Very Low", 0, 2500>> >>

\* get_similarity_interpretation: the first band with min <= score < max,
\* "Very Low" when the loop finds none.
get_similarity_interpretation(score) ==
    LET hits == { i \in DOMAIN SIMILARITY_INTERPRETATIONS :
                    /\ SIMILARITY_INTERPRETATIONS[i][2] * One <= score
                    /\ score < SIMILARITY_INTERPRETATIONS[i][3] * One }
    IN  IF hits = {} THEN "Very Low"
        ELSE SIMILARITY_INTERPRETATIONS[CHOOSE i \in hits : \A j \in hits : i <= j][1]

\* get_confidence_level reads the module's DEFAULT_CONFIG, whatever config
\* the analyzer holds.
get_confidence_level(score) ==
    IF score >= DEFAULT_FIELDS.HIGH_CONFIDENCE_THRESHOLD * One THEN "High"
    ELSE IF score >= DEFAULT_FIELDS.MEDIUM_CONFIDENCE_THRESHOLD * One THEN "Medium"
    ELSE "Low"

----------------------------------------------------------------------------
(* comparison_analyzer.py                                                  *)

\* _get_image_metadata: the dimensions field ("Unknown" when imread fails).
get_image_metadata(path) ==
    [path |-> path, dimensions |-> IF imread(path) THEN "WxH" ELSE "Unknown"]

\* (a risk table whose second row also asks for the medium-confidence threshold)
generate_analysis_insights_guarded(c, similarity_score, is_match) ==
    LET row ==
          IF is_match /\ similarity_score >= c.HIGH_CONFIDENCE_THRESHOLD * One
          THEN <<"Likely same product - High confidence match", "Low",
                 "Use as reference for authentication">>
          ELSE IF is_match /\ similarity_score >= c.MEDIUM_CONFIDENCE_THRESHOLD * One
          THEN <<"Similar products - Moderate confidence match", "Low to Medium",
                 "Compare physical details carefully">>
          ELSE IF similarity_score >= c.MEDIUM_CONFIDENCE_THRESHOLD * One
          THEN <<"Some similarities found - Needs verification", "Medium",
                 "Check for differences in brand markings, colors, and quality">>
          ELSE <<"Different products or poor match", "High",
                 "Verify with official brand website and check for counterfeits">>
    IN  [confidence |-> get_confidence_level(similarity_score),
         interpretation |-> get_similarity_interpretation(similarity_score),
         recommendation |-> row[1],
         counterfeit_risk |-> row[2],
         suggested_action |-> row[3]]

\* (a risk table whose third row cuts at the "Medium" band's 0.4)
generate_analysis_insights_band(c, similarity_score, is_match) ==
    LET row ==
          IF is_match /\ similarity_score >= c.HIGH_CONFIDENCE_THRESHOLD * One
          THEN <<"Likely same product - High confidence match", "Low",
                 "Use as reference for authentication">>
          ELSE IF is_match
          THEN <<"Similar products - Moderate confidence match", "Low to Medium",
                 "Compare physical details carefully">>
          ELSE IF similarity_score >= SIMILARITY_INTERPRETATIONS[3][2] * One
          THEN <<"Some similarities found - Needs verification", "Medium",
                 "Check for differences in brand markings, colors, and quality">>
          ELSE <<"Different products or poor match", "High",
                 "Verify with official brand website and check for counterfeits">>
    IN  [confidence |-> get_confidence_level(similarity_score),
         interpretation |-> get_similarity_interpretation(similarity_score),
         recommendation |-> row[1],
         counterfeit_risk |-> row[2],
         suggested_action |-> row[3]]

\* _generate_analysis_insights
generate_analysis_insights(c, similarity_score, is_match) ==
    LET row ==
          IF is_match /\ similarity_score >= c.HIGH_CONFIDENCE_THRESHOLD * One
          THEN <<"Likely same product - High confidence match", "Low",
                 "Use as reference for authentication">>
          ELSE IF is_match
          THEN <<"Similar products - Moderate confidence match", "Low to Medium",
                 "Compare physical details carefully">>
          ELSE IF similarity_score >= c.MEDIUM_CONFIDENCE_THRESHOLD * One
          THEN <<"Some similarities found - Needs verification", "Medium",
                 "Check for differences in brand markings, colors, and quality">>
          ELSE <<"Different products or poor match", "High",
                 "Verify with official brand website and check for counterfeits">>
    IN  [confidence |-> get_confidence_level(similarity_score),
         interpretation |-> get_similarity_interpretation(similarity_score),
         recommendation |-> row[1],
         counterfeit_risk |-> row[2],
         suggested_action |-> row[3]]

\* (`threshold or default`: a caller's 0.0 is taken for no threshold)
threshold_or_default(c, threshold) ==
    IF threshold = <<>> \/ threshold[1] = 0 THEN c.DEFAULT_MATCH_THRESHOLD
    ELSE threshold[1]

\* The threshold compare_images uses: the caller's (<<t>>) unless it is None (<<>>).
threshold_in_force(c, threshold) ==
    IF threshold = <<>> THEN c.DEFAULT_MATCH_THRESHOLD ELSE threshold[1]

\* dict.get(key, {})
DictGet(d, key) == IF key \in DOMAIN d THEN d[key] ELSE <<>>

\* (an existence check that forgets the second path)
missing_file_first_only(path1, path2) ==
    IF ~ exists(path1) THEN <<path1>> ELSE <<>>

\* The up-front os.path.exists checks of compare_images: the path reported
\* as not found, if any.
missing_file(path1, path2) ==
    IF ~ exists(path1) THEN <<path1>>
    ELSE IF ~ exists(path2) THEN <<path2>>
    ELSE <<>>

\* compare_images: `result` is the dict returned; `calls` lists the calculator
\* methods it invoked and `aggregate` the float calculate_similarity returned.
compare_images(c, path1, path2, threshold) ==
    LET th == threshold_in_force(c, threshold)
    IN  IF missing_file(path1, path2) # <<>>
        THEN [calls |-> <<>>, aggregate |-> 0,
              result |-> [error |-> "Image file not found", path |-> missing_file(path1, path2)[1]]]
        ELSE LET similarity_score == calculate_similarity(c, path1, path2)
                 is_match == similarity_score >= th * One
                 match_status == IF is_match THEN "MATCH" ELSE "NO MATCH"
                 detailed_analysis == get_detailed_analysis(c, path1, path2)
             IN  [calls |-> <<"calculate_similarity", "get_detailed_analysis">>,
                  aggregate |-> similarity_score,
                  result |->
                    [similarity_score |-> Round3(similarity_score, One * One),
                     is_match |-> is_match,
                     match_status |-> match_status,
                     threshold |-> th,
                     image1 |-> get_image_metadata(path1),
                     image2 |-> get_image_metadata(path2),
                     analysis |-> generate_analysis_insights(c, similarity_score, is_match),
                     detailed_scores |-> DictGet(detailed_analysis, "individual_scores"),
                     weights |-> DictGet(detailed_analysis, "weights"),
                     interpretation |-> get_similarity_interpretation(similarity_score),
                     confidence |-> get_confidence_level(similarity_score)]]

\* _get_recommended_actions
get_recommended_actions(verdict) ==
    IF verdict = "LIKELY AUTHENTIC"
    THEN << "Use as reference for authentication",
            "Compare with official product images",
            "Verify serial numbers and markings" >>
    ELSE IF verdict = "NEEDS VERIFICATION"
    THEN << "Check for differences in brand markings",
            "Compare color variations carefully",
            "Examine quality details and stitching",
            "Verify with official brand website" >>
    ELSE << "Verify with official brand website",
            "Check for authentication certificates",
            "Compare with known authentic examples",
            "Consider professional authentication" >>

\* The rows of the verdict table: verdict, confidence, reasoning.
VerdictRows ==
    << <<"LIKELY AUTHENTIC", "High",
         <<"Images show very high similarity", "Products appear to be identical",
           "Good reference for authentication">> >>,
       <<"LIKELY AUTHENTIC", "Medium",
         <<"Images show good similarity", "Products appear to be the same",
           "Minor differences may be due to lighting/angle">> >>,
       <<"NEEDS VERIFICATION", "Low",
         <<"Some similarities found but limited", "Compare physical details carefully",
           "Check authentication certificates">> >>,
       <<"SUSPICIOUS", "High",
         <<"No significant similarities found", "Higher risk of counterfeit",
           "Verify with official brand website">> >> >>

\* The dict get_counterfeit_detection_insights builds from a table row.
InsightsOf(row, similarity_score) ==
    [verdict |-> row[1], confidence |-> row[2],
     similarity_score |-> similarity_score,
     reasoning |-> row[3],
     recommended_actions |-> get_recommended_actions(row[1])]

\* (the verdict table with the cut points it had before they were lowered)
get_counterfeit_detection_insights_old_cuts(comparison_result) ==
    IF "error" \in DOMAIN comparison_result
    THEN [error |-> "Cannot analyze due to comparison error"]
    ELSE LET similarity_score == comparison_result.similarity_score
             is_match == comparison_result.is_match
         IN  InsightsOf(
               IF is_match /\ similarity_score >= 8000 * One THEN VerdictRows[1]
               ELSE IF is_match /\ similarity_score >= 6000 * One THEN VerdictRows[2]
               ELSE IF similarity_score >= 4000 * One THEN VerdictRows[3]
               ELSE VerdictRows[4],
               similarity_score)

\* get_counterfeit_detection_insights: decided on the report's published
\* (rounded) similarity_score and its is_match.
get_counterfeit_detection_insights(comparison_result) ==
    IF "error" \in DOMAIN comparison_result
    THEN [error |-> "Cannot analyze due to comparison error"]
    ELSE LET similarity_score == comparison_result.similarity_score
             is_match == comparison_result.is_match
         IN  InsightsOf(
               IF is_match /\ similarity_score >= 7000 * One THEN VerdictRows[1]
               ELSE IF is_match /\ similarity_score >= 5000 * One THEN VerdictRows[2]
               ELSE IF similarity_score >= 3000 * One THEN VerdictRows[3]
               ELSE VerdictRows[4],
               similarity_score)

\* The results dict batch_compare starts from.
batch_results(image_pairs) ==
    [total_comparisons |-> Len(image_pairs), matches |-> 0, no_matches |-> 0,
     errors |-> 0, comparisons |-> <<>>]

\* (one counter per entry, with plain `if`s: an error entry has no true
\* is_match, so it is counted as a non-match as well)
count_result_twice(results, comparison_result) ==
    LET counted == IF "error" \in DOMAIN comparison_result
                   THEN [results EXCEPT !.errors = @ + 1]
                   ELSE results
    IN  IF "error" \notin DOMAIN comparison_result /\ comparison_result.is_match
        THEN [counted EXCEPT !.matches = @ + 1]
        ELSE [counted EXCEPT !.no_matches = @ + 1]

\* The if / elif / else of batch_compare that counts one comparison result.
count_result(results, comparison_result) ==
    IF "error" \in DOMAIN comparison_result
    THEN [results EXCEPT !.errors = @ + 1]
    ELSE IF comparison_result.is_match
    THEN [results EXCEPT !.matches = @ + 1]
    ELSE [results EXCEPT !.no_matches = @ + 1]

\* comparison_result["pair_index"] = i
with_pair_index(comparison_result, i) ==
    [pair_index |-> i] @@ comparison_result

\* The loop of batch_compare from index i on.  The element is unpacked into
\* (path1, path2) by the `for` header, outside the try: an element that is not
\* a pair raises ValueError out of batch_compare.  compare_images catches every
\* exception itself, so the loop's own except branch is never entered.
RECURSIVE batch_loop(_, _, _, _, _)
batch_loop(c, image_pairs, threshold, i, results) ==
    IF i >= Len(image_pairs)
    THEN [raised |-> FALSE, results |-> results]
    ELSE LET element == image_pairs[i + 1]
         IN  IF Len(element) # 2
             THEN [raised |-> TRUE]
             ELSE LET comparison_result ==
                          compare_images(c, element[1], element[2], threshold).result
                      counted == count_result(results, comparison_result)
                      entry == with_pair_index(comparison_result, i)
                  IN  batch_loop(c, image_pairs, threshold, i + 1,
                                 [counted EXCEPT !.comparisons = Append(@, entry)])

\* ComparisonAnalyzer.batch_compare
batch_compare(c, image_pairs, threshold) ==
    batch_loop(c, image_pairs, threshold, 0, batch_results(image_pairs))

----------------------------------------------------------------------------
(* Inputs: the configs a caller may try to construct, the outcomes OpenCV  *)
(* may produce on a decodable pair, and the thresholds a caller may pass.  *)

\* Weights: the dataclass defaults, the example's custom weights, sums just
\* inside and just outside the tolerance, a negative weight, a plainly wrong sum.
WeightChoices ==
    { <<5000, 1500, 2500, 1000, 0>>, <<5000, 3000, 1000, 500, 500>>,
      <<5009, 1500, 2500, 1000, 0>>, <<5010, 1500, 2500, 1000, 0>>,
      <<4991, 1500, 2500, 1000, 0>>, <<4990, 1500, 2500, 1000, 0>>,
      <<15000, -5000, 0, 0, 0>>, <<4000, 1500, 2500, 1000, 0>> }

\* Thresholds (match, high, medium): the defaults, an end of [0,1],
\* values outside it for each of the three, and an override of the two
\* confidence thresholds inside [0,1].
ThresholdChoices ==
    { <<6000, 7500, 4500>>, <<0, 7500, 4500>>,
      <<-1, 7500, 4500>>, <<One + 1, 7500, 4500>>,
      <<6000, 15000, 4500>>, <<6000, 7500, -1000>>,
      <<6000, 9500, 2000>> }

MakeFields(w, t) ==
    [ COLOR_WEIGHT |-> w[1], SIFT_WEIGHT |-> w[2], SSIM_WEIGHT |-> w[3],
      EDGE_WEIGHT |-> w[4], SHAPE_WEIGHT |-> w[5],
      DEFAULT_MATCH_THRESHOLD |-> t[1],
      HIGH_CONFIDENCE_THRESHOLD |-> t[2],
      MEDIUM_CONFIDENCE_THRESHOLD |-> t[3] ]

\* Every weight choice with the default thresholds, every threshold choice
\* with the default weights.
CandidateConfigs ==
    { MakeFields(w, <<6000, 7500, 4500>>) : w \in WeightChoices }
    \cup { MakeFields(<<5000, 1500, 2500, 1000, 0>>, t) : t \in ThresholdChoices }

ColorOutcomes ==
    { [extract |-> TRUE, compare |-> TRUE,
       bgr |-> <<9000, 8000, 9500>>, hsv |-> <<7000, 8500, 6000>>],
      [extract |-> TRUE, compare |-> TRUE,
       bgr |-> <<One, One, One>>, hsv |-> <<One, One, One>>],
      [extract |-> TRUE, compare |-> TRUE,
       bgr |-> <<-2000, -500, -3000>>, hsv |-> <<4000, 1000, 2000>>],
      [extract |-> TRUE, compare |-> FALSE, bgr |-> <<>>, hsv |-> <<>>],
      [extract |-> FALSE, compare |-> FALSE, bgr |-> <<>>, hsv |-> <<>>] }

NoMatches == [ok |-> FALSE, matches |-> <<>>]

NoDistance == [ok |-> FALSE, ratio |-> 0]

SIFTOutcomes ==
    { [extract |-> TRUE, len1 |-> 3, len2 |-> 2,
       flann |-> [ok |-> TRUE, matches |-> << <<10, 100>>, <<20, 100>>, <<5, 50>> >>],
       bf    |-> [ok |-> TRUE, matches |-> << <<10, 100>>, <<20, 25>>, <<5, 50>> >>],
       dist  |-> [ok |-> TRUE, ratio |-> 3000]],
      [extract |-> TRUE, len1 |-> 4, len2 |-> 4,
       flann |-> [ok |-> TRUE, matches |-> << <<10, 100>>, <<64, 100>>, <<66, 100>>, <<50>> >>],
       bf    |-> [ok |-> TRUE, matches |-> << <<10, 100>>, <<64, 100>>, <<66, 100>>, <<50>> >>],
       dist  |-> NoDistance],
      [extract |-> TRUE, len1 |-> 3, len2 |-> 3,
       flann |-> NoMatches, bf |-> [ok |-> TRUE, matches |-> << <<90, 100>> >>],
       dist  |-> [ok |-> TRUE, ratio |-> 7000]],
      [extract |-> TRUE, len1 |-> 1, len2 |-> 5,
       flann |-> NoMatches, bf |-> NoMatches, dist |-> NoDistance],
      [extract |-> TRUE, len1 |-> 3, len2 |-> 3,
       flann |-> NoMatches, bf |-> NoMatches, dist |-> NoDistance],
      [extract |-> FALSE, len1 |-> 0, len2 |-> 0,
       flann |-> NoMatches, bf |-> NoMatches, dist |-> NoDistance] }

SSIMOutcomes ==
    { [extract |-> TRUE, compare |-> TRUE, corr |-> 9000],
      [extract |-> TRUE, compare |-> TRUE, corr |-> -3000],
      [extract |-> TRUE, compare |-> FALSE, corr |-> 0],
      [extract |-> FALSE, compare |-> FALSE, corr |-> 0] }

Thrown == [ok |-> FALSE, v |-> 0]

EdgeOutcomes ==
    { [extract |-> TRUE, tm |-> [ok |-> TRUE, v |-> 2000], hist |-> [ok |-> TRUE, v |-> 9900],
       densityOk |-> TRUE, density1 |-> 1200, density2 |-> 1000],
      [extract |-> TRUE, tm |-> [ok |-> TRUE, v |-> -1000], hist |-> [ok |-> TRUE, v |-> -200],
       densityOk |-> FALSE, density1 |-> 0, density2 |-> 0],
      [extract |-> TRUE, tm |-> Thrown, hist |-> Thrown,
       densityOk |-> TRUE, density1 |-> 0, density2 |-> 3000],
      [extract |-> TRUE, tm |-> Thrown, hist |-> Thrown,
       densityOk |-> FALSE, density1 |-> 0, density2 |-> 0],
      [extract |-> FALSE, tm |-> Thrown, hist |-> Thrown,
       densityOk |-> FALSE, density1 |-> 0, density2 |-> 0] }

ShapeOutcomes ==
    { [len1 |-> 7, len2 |-> 7, distance |-> 0],
      [len1 |-> 7, len2 |-> 7, distance |-> 30000],
      [len1 |-> 0, len2 |-> 7, distance |-> 0] }

\* A pair on which every metric is high, and one on which every metric is 0.
HighScene ==
    [ resize |-> TRUE,
      Color |-> [extract |-> TRUE, compare |-> TRUE,
                 bgr |-> <<9000, 8000, 9500>>, hsv |-> <<7000, 8500, 6000>>],
      SIFT  |-> [extract |-> TRUE, len1 |-> 3, len2 |-> 2,
                 flann |-> [ok |-> TRUE, matches |-> << <<10, 100>>, <<20, 100>>, <<5, 50>> >>],
                 bf    |-> [ok |-> TRUE, matches |-> << <<10, 100>>, <<20, 25>>, <<5, 50>> >>],
                 dist  |-> [ok |-> TRUE, ratio |-> 3000]],
      SSIM  |-> [extract |-> TRUE, compare |-> TRUE, corr |-> 9000],
      Edge  |-> [extract |-> TRUE, tm |-> [ok |-> TRUE, v |-> 2000],
                 hist |-> [ok |-> TRUE, v |-> 9900],
                 densityOk |-> TRUE, density1 |-> 1200, density2 |-> 1000],
      Shape |-> [len1 |-> 7, len2 |-> 7, distance |-> 0] ]

LowScene ==
    [ resize |-> TRUE,
      Color |-> [extract |-> TRUE, compare |-> TRUE,
                 bgr |-> <<-2000, -500, -3000>>, hsv |-> <<4000, 1000, 2000>>],
      SIFT  |-> [extract |-> TRUE, len1 |-> 1, len2 |-> 5,
                 flann |-> NoMatches, bf |-> NoMatches, dist |-> NoDistance],
      SSIM  |-> [extract |-> TRUE, compare |-> TRUE, corr |-> -3000],
      Edge  |-> [extract |-> TRUE, tm |-> [ok |-> TRUE, v |-> -1000],
                 hist |-> [ok |-> TRUE, v |-> -200],
                 densityOk |-> FALSE, density1 |-> 0, density2 |-> 0],
      Shape |-> [len1 |-> 0, len2 |-> 7, distance |-> 0] ]

\* A pair with one extractor's outcome, or cv2.resize, varied.
ScenesAround(b) ==
    { [b EXCEPT !.Color = x] : x \in ColorOutcomes }
    \cup { [b EXCEPT !.SIFT = x] : x \in SIFTOutcomes }
    \cup { [b EXCEPT !.SSIM = x] : x \in SSIMOutcomes }
    \cup { [b EXCEPT !.Edge = x] : x \in EdgeOutcomes }
    \cup { [b EXCEPT !.Shape = x] : x \in ShapeOutcomes }
    \cup { [b EXCEPT !.resize = FALSE] }

\* An image and its exact copy: every histogram and buffer correlates fully,
\* every descriptor has itself as nearest neighbour at distance 0 (one of the
\* three has a duplicate, so its second neighbour is at distance 0 too), the
\* edge maps and the Hu moments coincide.
IdenticalScene ==
    [ resize |-> TRUE,
      Color |-> [extract |-> TRUE, compare |-> TRUE,
                 bgr |-> <<One, One, One>>, hsv |-> <<One, One, One>>],
      SIFT  |-> [extract |-> TRUE, len1 |-> 3, len2 |-> 3,
                 flann |-> [ok |-> TRUE, matches |-> << <<0, 40>>, <<0, 0>>, <<0, 55>> >>],
                 bf    |-> [ok |-> TRUE, matches |-> << <<0, 40>>, <<0, 0>>, <<0, 55>> >>],
                 dist  |-> [ok |-> TRUE, ratio |-> 0]],
      SSIM  |-> [extract |-> TRUE, compare |-> TRUE, corr |-> One],
      Edge  |-> [extract |-> TRUE, tm |-> [ok |-> TRUE, v |-> One],
                 hist |-> [ok |-> TRUE, v |-> One],
                 densityOk |-> TRUE, density1 |-> 1200, density2 |-> 1200],
      Shape |-> [len1 |-> 7, len2 |-> 7, distance |-> 0] ]

\* A valid image against a 1x1 image stretched to a uniform buffer: the
\* second image has no descriptors, no edge pixels and no contour, and no
\* correlation with the first is positive.
DegenerateScene ==
    [ resize |-> TRUE,
      Color |-> [extract |-> TRUE, compare |-> TRUE,
                 bgr |-> <<0, 0, 0>>, hsv |-> <<0, 0, 0>>],
      SIFT  |-> [extract |-> TRUE, len1 |-> 3, len2 |-> 0,
                 flann |-> NoMatches, bf |-> NoMatches, dist |-> NoDistance],
      SSIM  |-> [extract |-> TRUE, compare |-> TRUE, corr |-> 0],
      Edge  |-> [extract |-> TRUE, tm |-> [ok |-> TRUE, v |-> 0],
                 hist |-> [ok |-> TRUE, v |-> 0],
                 densityOk |-> TRUE, density1 |-> 1200, density2 |-> 0],
      Shape |-> [len1 |-> 7, len2 |-> 0, distance |-> 0] ]

\* Pairs that agree in colour only: an aggregate of 0.425 and one of 0.2998
\* under the default weights.
ColorOnlyScene == [LowScene EXCEPT !.Color = HighScene.Color]

NearSuspiciousScene ==
    [LowScene EXCEPT !.Color = [extract |-> TRUE, compare |-> TRUE,
                                bgr |-> <<5996, 5000, 4000>>,
                                hsv |-> <<7000, 6500, 6000>>]]

\* A similar pair whose first image yields a single descriptor; the matchers
\* would pair it up if they were run.
FewDescriptorsScene ==
    [HighScene EXCEPT !.SIFT =
        [extract |-> TRUE, len1 |-> 1, len2 |-> 5,
         flann |-> [ok |-> TRUE, matches |-> << <<10, 100>> >>],
         bf    |-> [ok |-> TRUE, matches |-> << <<10, 100>> >>],
         dist  |-> [ok |-> TRUE, ratio |-> 1000]]]

\* A pair alike in colour and in its edge histogram only: an aggregate of
\* 0.5996 under the default weights.
NearMatchScene ==
    [LowScene EXCEPT
        !.Color = IdenticalScene.Color,
        !.Edge = [extract |-> TRUE, tm |-> [ok |-> TRUE, v |-> 1000],
                  hist |-> [ok |-> TRUE, v |-> 9960],
                  densityOk |-> FALSE, density1 |-> 0, density2 |-> 0]]

Scenes ==
    ScenesAround(HighScene)
    \cup {LowScene, IdenticalScene, DegenerateScene, ColorOnlyScene, NearSuspiciousScene,
          FewDescriptorsScene, NearMatchScene}

\* threshold=None (<<>>) or a float.
Thresholds == { <<>>, <<0>>, <<7000>>, <<One>> }

\* The path pairs a caller passes: both decodable, one or both undecodable,
\* one or both missing.
ImagePairs ==
    { <<"ref.jpg", "candidate.jpg">>, <<"ref.jpg", "notimage.txt">>,
      <<"notimage.txt", "candidate.jpg">>, <<"notimage.txt", "notimage.txt">>,
      <<"ref.jpg", "does_not_exist.jpg">>, <<"does_not_exist.jpg", "candidate.jpg">>,
      <<"notimage.txt", "does_not_exist.jpg">>,
      <<"does_not_exist.jpg", "does_not_exist.jpg">> }

\* The elements of a batch: a decodable pair, a pair with an undecodable
\* file, a pair with a missing file, and an element that is not a pair.
BatchElements ==
    { <<"ref.jpg", "candidate.jpg">>, <<"ref.jpg", "notimage.txt">>,
      <<"ref.jpg", "does_not_exist.jpg">>, <<"ref.jpg">> }

\* The longest batch tried.
MaxBatch == 2

\* The image_pairs lists a caller passes to batch_compare.
BatchInputs ==
    UNION { [1..n -> BatchElements] : n \in 0..MaxBatch }

\* The threshold argument of batch_compare.
BatchThresholds == { <<>>, <<7000>> }

\* The pairs of images batches are run on: a similar pair, a dissimilar pair,
\* and a pair whose preprocessing raises.
BatchScenes == { HighScene, LowScene, [HighScene EXCEPT !.resize = FALSE] }

\* The configs batches are run under: the defaults, a config that is refused,
\* and one with a stricter default threshold.
BatchConfigs ==
    { DEFAULT_FIELDS,
      MakeFields(<<5000, 1500, 2500, 1000, 1000>>, <<6000, 7500, 4500>>),
      MakeFields(<<5000, 1500, 2500, 1000, 0>>, <<9500, 7500, 4500>>) }

----------------------------------------------------------------------------
(* main.py: the HTTP workflow.  A task is a dict (a record here); Python's *)
(* None is the empty tuple and a value v that may be None is <<v>>.        *)

None == <<>>

Some(v) == <<v>>

\* d[key] = v on a dict: the key is added or its value replaced.
SetKey(d, key, v) == (key :> v) @@ d

\* The request threads of the server (app.run serves each request in its own
\* thread).
Clients == {"c1", "c2"}

\* uuid.uuid4() values handed out by /detect, and an id no detection has.
DetectionIds == {"d1"}

RequestIds == DetectionIds \cup {"unknown"}

\* The brand of a /criteria request body after .strip(): absent or given.
Brands == {"", "Gucci"}

\* A thread that serves no request; resp is the response it sent last.
Idle == [pc |-> "idle", kind |-> "none", id |-> "none", brand |-> "",
         data |-> None, resp |-> None]

\* jsonify(body), status
Response(status, body) == Some([status |-> status, body |-> body])

\* The thread has answered: it is idle again and keeps what it served.
Answered(r, status, body) ==
    [r EXCEPT !.pc = "idle", !.data = None, !.resp = Response(status, body)]

\* The task /detect stores for a product; product_image_path is None when no
\* search result had a thumbnail or its download failed.
ProductTask(product_image_path) ==
    [item |-> "bag", item_type |-> "product",
     item_detection_image |-> "candidate.jpg",
     product_image_path |-> product_image_path,
     criteria |-> None, location_angle |-> None, detailed_criteria |-> None]

\* The tasks /detect stores for a person, a text and any other content.
PersonTask ==
    [item |-> "face", item_type |-> "person",
     item_detection_image |-> "candidate.jpg", awaiting_person_input |-> TRUE]

TextTask ==
    [item |-> "letter", item_type |-> "text",
     item_detection_image |-> "candidate.jpg", fact_check_result |-> "checked"]

OtherTask ==
    [item |-> "scene", item_type |-> "other",
     item_detection_image |-> "candidate.jpg", gemini_analysis |-> "analysed"]

\* What /detect can store.
DetectedTasks ==
    { ProductTask(None), ProductTask(Some("ref.jpg")), PersonTask, TextTask, OtherTask }

\* The ways /detect answers without storing a task: status and body.
DetectRefusals ==
    { <<400, "No image provided">>, <<200, "is_deepfake">>,
      <<200, "needs_repositioning">>,
      <<400, "Could not identify the item in the image">>, <<500, "exception">> }

\* f"{brand} {item_name}" when a brand was given, else item_name.
item_name_with_brand(brand, item_name) ==
    IF brand # "" THEN <<brand, item_name>> ELSE <<item_name>>

\* criteria.criteria(item): the criteria found (or cached) for that name.
get_criteria(name) ==
    [criteria |-> << <<"feature of", name>> >>,
     location_angle |-> << <<"location on", name>> >>,
     detailed_criteria |-> << <<"details of", name>> >>]

\* The initial scan of /analyze: compare_images on the product image and the
\* detection image with threshold 0.7, kept when it is not an error.
initial_scan_of(c, task) ==
    IF "product_image_path" \in DOMAIN task
       /\ task.product_image_path # None
       /\ exists(task.product_image_path[1])
    THEN LET similarity_result ==
                 compare_images(c, task.product_image_path[1],
                                task.item_detection_image, Some(7000)).result
         IN  IF "error" \notin DOMAIN similarity_result
             THEN Some([similarity_score |-> similarity_result.similarity_score,
                        match_status |-> similarity_result.match_status,
                        confidence |-> similarity_result.analysis.confidence,
                        interpretation |-> similarity_result.analysis.interpretation,
                        recommendation |-> similarity_result.analysis.recommendation,
                        counterfeit_risk |-> similarity_result.analysis.counterfeit_risk])
             ELSE None
    ELSE None

----------------------------------------------------------------------------
(* The state machine.                                                      *)

Init ==
    /\ config = DEFAULT_FIELDS          \* the module-level DEFAULT_CONFIG
    /\ made = [state |-> "none", fields |-> DEFAULT_FIELDS, error |-> "none"]
    /\ cv \in Scenes
    /\ last = [op |-> "none"]
    /\ DETECT_TASKS = <<>>
    /\ clients = [c \in Clients |-> Idle]

\* SimilarityConfig(**fields) followed by ComparisonAnalyzer(config): either
\* __post_init__ raises ValueError and nothing is built, or the analyzer, its
\* calculator and the five extractors all hold the new config.
Construct(fields) ==
    /\ made.state = "none"
    /\ IF PostInitRaises(fields)
       THEN /\ made' = [state |-> "raised", fields |-> fields,
                        error |-> IF WeightCheckRaises(fields) THEN "weights"
                                  ELSE "threshold"]
            /\ UNCHANGED config
       ELSE /\ made' = [state |-> "ok", fields |-> fields, error |-> "none"]
            /\ config' = fields
    /\ UNCHANGED <<cv, last, DETECT_TASKS, clients>>

\* calculator.calculate_similarity(path1, path2)
CalculateSimilarity(path1, path2) ==
    /\ made.state = "ok"
    /\ last' = [op |-> "calculate_similarity", path1 |-> path1, path2 |-> path2,
                result |-> calculate_similarity(config, path1, path2)]
    /\ UNCHANGED <<config, made, cv, DETECT_TASKS, clients>>

\* calculator.get_detailed_analysis(path1, path2)
GetDetailedAnalysis(path1, path2) ==
    /\ made.state = "ok"
    /\ last' = [op |-> "get_detailed_analysis", path1 |-> path1, path2 |-> path2,
                result |-> get_detailed_analysis(config, path1, path2)]
    /\ UNCHANGED <<config, made, cv, DETECT_TASKS, clients>>

\* (a compare_images that keeps the caller's threshold as the new default)
CompareImages_keeps_threshold(path1, path2, threshold) ==
    /\ made.state = "ok"
    /\ LET out == compare_images(config, path1, path2, threshold)
       IN  last' = [op |-> "compare_images", path1 |-> path1, path2 |-> path2,
                    threshold |-> threshold, calls |-> out.calls,
                    aggregate |-> out.aggregate, result |-> out.result]
    /\ config' = IF threshold = <<>> THEN config
                 ELSE [config EXCEPT !.DEFAULT_MATCH_THRESHOLD = threshold[1]]
    /\ UNCHANGED <<made, cv, DETECT_TASKS, clients>>

\* analyzer.compare_images(path1, path2, threshold)
CompareImages(path1, path2, threshold) ==
    /\ made.state = "ok"
    /\ LET out == compare_images(config, path1, path2, threshold)
       IN  last' = [op |-> "compare_images", path1 |-> path1, path2 |-> path2,
                    threshold |-> threshold, calls |-> out.calls,
                    aggregate |-> out.aggregate, result |-> out.result]
    /\ UNCHANGED <<config, made, cv, DETECT_TASKS, clients>>

Next ==
    \/ \E fields \in CandidateConfigs : Construct(fields)
    \/ \E p \in ImagePairs : CalculateSimilarity(p[1], p[2])
    \/ \E p \in ImagePairs : GetDetailedAnalysis(p[1], p[2])
    \/ \E p \in ImagePairs, threshold \in Thresholds :
          CompareImages(p[1], p[2], threshold)

Spec == Init /\ [][Next]_vars

\* analyzer.get_counterfeit_detection_insights(result) on the dict the last
\* compare_images returned; `aggregate` stays the float behind that dict.
GetCounterfeitInsights ==
    /\ made.state = "ok"
    /\ last.op = "compare_images"
    /\ last' = [op |-> "get_counterfeit_detection_insights",
                report |-> last.result, aggregate |-> last.aggregate,
                result |-> get_counterfeit_detection_insights(last.result)]
    /\ UNCHANGED <<config, made, cv, DETECT_TASKS, clients>>

\* The analyzer's workflow: a comparison, then the verdict on its report.
NextVerdict ==
    \/ \E fields \in CandidateConfigs : Construct(fields)
    \/ \E p \in ImagePairs, threshold \in Thresholds :
          CompareImages(p[1], p[2], threshold)
    \/ GetCounterfeitInsights

SpecVerdict == Init /\ [][NextVerdict]_vars

\* analyzer.batch_compare(image_pairs, threshold)
BatchCompare(image_pairs, threshold) ==
    /\ made.state = "ok"
    /\ last' = [op |-> "batch_compare", image_pairs |-> image_pairs,
                threshold |-> threshold,
                result |-> batch_compare(config, image_pairs, threshold)]
    /\ UNCHANGED <<config, made, cv, DETECT_TASKS, clients>>

\* DEFAULT_CONFIG, no analyzer yet, one of the batch scenes on disk.
InitBatch ==
    /\ config = DEFAULT_FIELDS
    /\ made = [state |-> "none", fields |-> DEFAULT_FIELDS, error |-> "none"]
    /\ cv \in BatchScenes
    /\ last = [op |-> "none"]
    /\ DETECT_TASKS = <<>>
    /\ clients = [c \in Clients |-> Idle]

\* The batch workflow: build an analyzer, run batches.
NextBatch ==
    \/ \E fields \in BatchConfigs : Construct(fields)
    \/ \E image_pairs \in BatchInputs, threshold \in BatchThresholds :
          BatchCompare(image_pairs, threshold)

SpecBatch == InitBatch /\ [][NextBatch]_vars

\* The whole engine: build an analyzer, then any of its five calls in any
\* order.
NextEngine ==
    \/ \E fields \in BatchConfigs : Construct(fields)
    \/ \E p \in ImagePairs : CalculateSimilarity(p[1], p[2])
    \/ \E p \in ImagePairs : GetDetailedAnalysis(p[1], p[2])
    \/ \E p \in ImagePairs, threshold \in Thresholds :
          CompareImages(p[1], p[2], threshold)
    \/ \E image_pairs \in BatchInputs, threshold \in BatchThresholds :
          BatchCompare(image_pairs, threshold)
    \/ GetCounterfeitInsights

SpecEngine == InitBatch /\ [][NextEngine]_vars

\* The fields a caller assigns to, and the values assigned.
AssignedFields == {"COLOR_WEIGHT", "DEFAULT_MATCH_THRESHOLD"}

AssignedValues == {5000, 9000}

\* config.<field> = value on the instance the analyzer was built with.
\* SimilarityConfig is a plain @dataclass: the assignment is accepted and
\* __post_init__ is not run again.  The analyzer, the calculator and the five
\* extractors hold that same instance, so all of them see the new value.
SetField(field, value) ==
    /\ made.state = "ok"
    /\ config' = [config EXCEPT ![field] = value]
    /\ UNCHANGED <<made, cv, last, DETECT_TASKS, clients>>

\* A caller that keeps a reference to the config it built the analyzer with.
NextMutable ==
    \/ \E fields \in BatchConfigs : Construct(fields)
    \/ \E field \in AssignedFields, value \in AssignedValues : SetField(field, value)
    \/ \E p \in ImagePairs, threshold \in Thresholds :
          CompareImages(p[1], p[2], threshold)

SpecMutable == InitBatch /\ [][NextMutable]_vars

----------------------------------------------------------------------------
(* main.py: the request handlers.  A handler that only touches             *)
(* DETECT_TASKS at one point is one step; /criteria and /analyze call out  *)
(* to slow services between their check and their writes and are split     *)
(* there, and at each separate write of /criteria.                         *)

\* POST /detect that stores a task under a fresh uuid and answers 200.
Detect(c, id, task) ==
    /\ clients[c].pc = "idle"
    /\ id \notin DOMAIN DETECT_TASKS
    /\ DETECT_TASKS' = (id :> task) @@ DETECT_TASKS
    /\ clients' = [clients EXCEPT ![c] =
          Answered([Idle EXCEPT !.kind = "detect", !.id = id], 200,
                   [success |-> TRUE, detection_id |-> id, item_type |-> task.item_type])]
    /\ UNCHANGED <<config, made, cv, last>>

\* POST /detect that ends before a task is stored: no image, a deepfake, a
\* repositioning request, no item name, or an exception.
DetectRefused(c, refusal) ==
    /\ clients[c].pc = "idle"
    /\ clients' = [clients EXCEPT ![c] =
          Answered([Idle EXCEPT !.kind = "detect"], refusal[1], [outcome |-> refusal[2]])]
    /\ UNCHANGED <<config, made, cv, last, DETECT_TASKS>>

\* POST /research_person: 404 for an unknown id, 400 for a task that is not a
\* person, 500 when the research raises, else the task is updated.
ResearchPerson(c, id, researched) ==
    /\ clients[c].pc = "idle"
    /\ LET r == [Idle EXCEPT !.kind = "research_person", !.id = id]
       IN  IF id \notin DOMAIN DETECT_TASKS
           THEN /\ clients' = [clients EXCEPT ![c] =
                      Answered(r, 404, [error |-> "Detection ID not found"])]
                /\ UNCHANGED DETECT_TASKS
           ELSE IF DETECT_TASKS[id].item_type # "person"
           THEN /\ clients' = [clients EXCEPT ![c] =
                      Answered(r, 400, [error |-> "This detection is not for a person"])]
                /\ UNCHANGED DETECT_TASKS
           ELSE IF ~ researched
           THEN /\ clients' = [clients EXCEPT ![c] =
                      Answered(r, 500, [error |-> "exception"])]
                /\ UNCHANGED DETECT_TASKS
           ELSE /\ DETECT_TASKS' = [DETECT_TASKS EXCEPT ![id] =
                      SetKey(SetKey(SetKey(SetKey(@, "person_name", "name"),
                                           "additional_info", ""),
                                    "person_research", "research"),
                             "awaiting_person_input", FALSE)]
                /\ clients' = [clients EXCEPT ![c] =
                      Answered(r, 200, [success |-> TRUE, detection_id |-> id])]
    /\ UNCHANGED <<config, made, cv, last>>

\* POST /criteria/<id>, up to the test `task["criteria"] is None`: 404 for an
\* unknown id; a given brand is written into the task; a task without a
\* "criteria" key raises KeyError, answered 500.
CriteriaStart(c, id, brand) ==
    /\ clients[c].pc = "idle"
    /\ LET r == [Idle EXCEPT !.kind = "criteria", !.id = id, !.brand = brand]
       IN  IF id \notin DOMAIN DETECT_TASKS
           THEN /\ clients' = [clients EXCEPT ![c] =
                      Answered(r, 404, [error |-> "Detection ID not found"])]
                /\ UNCHANGED DETECT_TASKS
           ELSE LET task == DETECT_TASKS[id]
                IN  /\ DETECT_TASKS' =
                          IF brand # ""
                          THEN [DETECT_TASKS EXCEPT ![id] = SetKey(task, "brand", brand)]
                          ELSE DETECT_TASKS
                    /\ clients' = [clients EXCEPT ![c] =
                          IF "criteria" \notin DOMAIN task
                          THEN Answered(r, 500, [error |-> "'criteria'"])
                          ELSE IF task.criteria = None
                          THEN [r EXCEPT !.pc = "get_criteria"]
                          ELSE [r EXCEPT !.pc = "respond"]]
    /\ UNCHANGED <<config, made, cv, last>>

\* criteria_data = get_criteria(item_name_with_brand): the search returns, or
\* raises (answered 500).
CriteriaFetch(c, found) ==
    /\ clients[c].pc = "get_criteria"
    /\ LET r == clients[c]
           item_name == DETECT_TASKS[r.id].item
       IN  clients' = [clients EXCEPT ![c] =
              IF found
              THEN [r EXCEPT !.pc = "store_criteria",
                             !.data = Some(get_criteria(
                                             item_name_with_brand(r.brand, item_name)))]
              ELSE Answered(r, 500, [error |-> "exception"])]
    /\ UNCHANGED <<config, made, cv, last, DETECT_TASKS>>

\* One of the three assignments DETECT_TASKS[detection_id][key] = ... of
\* /criteria, in their order.
CriteriaStore(c, key, after) ==
    /\ clients[c].pc = "store_" \o key
    /\ DETECT_TASKS' = [DETECT_TASKS EXCEPT ![clients[c].id] =
          SetKey(@, key, Some(clients[c].data[1][key]))]
    /\ clients' = [clients EXCEPT ![c].pc = after]
    /\ UNCHANGED <<config, made, cv, last>>

\* The response of /criteria, read back from DETECT_TASKS.
CriteriaRespond(c) ==
    /\ clients[c].pc = "respond"
    /\ LET task == DETECT_TASKS[clients[c].id]
       IN  clients' = [clients EXCEPT ![c] =
              Answered(@, 200,
                       [success |-> TRUE, detection_id |-> @.id, item |-> task.item,
                        location_angle |-> task.location_angle,
                        detailed_criteria |-> task.detailed_criteria])]
    /\ UNCHANGED <<config, made, cv, last, DETECT_TASKS>>

\* POST /analyze/<id>, up to the validation of the request: 404 for an unknown
\* id; task["criteria"] on a task without that key raises KeyError, answered
\* 500; 400 while criteria or location_angle is None; 400 without images.
AnalyzeStart(c, id, images) ==
    /\ clients[c].pc = "idle"
    /\ LET r == [Idle EXCEPT !.kind = "analyze", !.id = id]
       IN  clients' = [clients EXCEPT ![c] =
              IF id \notin DOMAIN DETECT_TASKS
              THEN Answered(r, 404, [error |-> "Detection ID not found"])
              ELSE LET task == DETECT_TASKS[id]
                   IN  IF "criteria" \notin DOMAIN task
                       THEN Answered(r, 500, [error |-> "'criteria'"])
                       ELSE IF task.criteria = None \/ task.location_angle = None
                       THEN Answered(r, 400, [error |-> "Criteria not fetched yet"])
                       ELSE IF ~ images
                       THEN Answered(r, 400, [error |-> "No images provided"])
                       ELSE [r EXCEPT !.pc = "analyze"]]
    /\ UNCHANGED <<config, made, cv, last, DETECT_TASKS>>

\* The work of /analyze: the images are saved, the initial scan is taken with
\* SIMILARITY_ANALYZER and counterfeit(...) judges the item on the task's
\* criteria; an exception on the way is answered 500.
AnalyzeCompute(c, is_authentic, raised) ==
    /\ clients[c].pc = "analyze"
    /\ LET task == DETECT_TASKS[clients[c].id]
       IN  clients' = [clients EXCEPT ![c] =
              IF raised
              THEN Answered(@, 500, [error |-> "exception"])
              ELSE [@ EXCEPT !.pc = "store_analysis",
                             !.data = Some([analysis_result |->
                                               [is_authentic |-> is_authentic,
                                                criteria |-> task.criteria],
                                            initial_scan |-> initial_scan_of(config, task)])]]
    /\ UNCHANGED <<config, made, cv, last, DETECT_TASKS>>

\* The results are stored in the task and returned.
AnalyzeStore(c) ==
    /\ clients[c].pc = "store_analysis"
    /\ LET out == clients[c].data[1]
       IN  /\ DETECT_TASKS' = [DETECT_TASKS EXCEPT ![clients[c].id] =
                 SetKey(SetKey(SetKey(@, "analysis_result", out.analysis_result),
                               "criteria_images", "saved"),
                        "initial_scan", out.initial_scan)]
           /\ clients' = [clients EXCEPT ![c] =
                 Answered(@, 200,
                          [success |-> TRUE, detection_id |-> @.id,
                           is_authentic |-> out.analysis_result.is_authentic,
                           initial_scan |-> out.initial_scan])]
    /\ UNCHANGED <<config, made, cv, last>>

\* The server after start-up: the module-level SIMILARITY_ANALYZER is a
\* ComparisonAnalyzer() on DEFAULT_CONFIG, DETECT_TASKS is empty and no
\* request is being served.
InitHttp ==
    /\ config = DEFAULT_FIELDS
    /\ made = [state |-> "ok", fields |-> DEFAULT_FIELDS, error |-> "none"]
    /\ cv \in {HighScene, LowScene}
    /\ last = [op |-> "none"]
    /\ DETECT_TASKS = <<>>
    /\ clients = [c \in Clients |-> Idle]

NextHttp ==
    \E c \in Clients :
        \/ \E id \in DetectionIds, task \in DetectedTasks : Detect(c, id, task)
        \/ \E refusal \in DetectRefusals : DetectRefused(c, refusal)
        \/ \E id \in RequestIds, researched \in BOOLEAN : ResearchPerson(c, id, researched)
        \/ \E id \in RequestIds, brand \in Brands : CriteriaStart(c, id, brand)
        \/ \E found \in BOOLEAN : CriteriaFetch(c, found)
        \/ CriteriaStore(c, "criteria", "store_location_angle")
        \/ CriteriaStore(c, "location_angle", "store_detailed_criteria")
        \/ CriteriaStore(c, "detailed_criteria", "respond")
        \/ CriteriaRespond(c)
        \/ \E id \in RequestIds, images \in BOOLEAN : AnalyzeStart(c, id, images)
        \/ \E is_authentic, raised \in BOOLEAN : AnalyzeCompute(c, is_authentic, raised)
        \/ AnalyzeStore(c)

SpecHttp == InitHttp /\ [][NextHttp]_vars

----------------------------------------------------------------------------
(* Properties.                                                             *)

MetricNames == {"Color", "SIFT", "SSIM", "Edge", "Shape"}

\* The last call was `op` on a pair of files that both decode.
DecodableCall(op) ==
    /\ last.op = op
    /\ imread(last.path1) /\ imread(last.path2)

\* The last call returned a dict without an "error" key.
NonError == "error" \notin DOMAIN last.result

\* On the pair at hand preprocessing and every extract_features call succeed.
AllExtracted ==
    cv.resize /\ cv.Color.extract /\ cv.SIFT.extract /\ cv.SSIM.extract /\ cv.Edge.extract

\* C1: for a decodable pair and a config that passed construction, the
\* aggregate returned by calculate_similarity and each of the five per-metric
\* scores reported by get_detailed_analysis lie in [0.0, 1.0].
C1_Boundedness ==
    /\ DecodableCall("calculate_similarity") =>
          (0 <= last.result /\ last.result <= One * One)
    /\ (DecodableCall("get_detailed_analysis") /\ NonError) =>
          /\ 0 <= last.result.similarity_score
          /\ last.result.similarity_score <= One * One
          /\ DOMAIN last.result.individual_scores = MetricNames
          /\ \A m \in MetricNames :
                /\ 0 <= last.result.individual_scores[m]
                /\ last.result.individual_scores[m] <= One

\* C1 witness: a detailed analysis of a pair whose colour correlations are
\* negative in the native space, reported as a Color score of 0.
C1_Witness ==
    /\ DecodableCall("get_detailed_analysis") /\ NonError
    /\ cv.Color.compare /\ MaxOf(cv.Color.bgr) < 0
    /\ last.result.individual_scores["Color"] = 0

\* C2: construction raises whenever the five weights sum to a value 0.001 or
\* more away from 1.0, never raises on the weight check when the sum is within
\* 0.001, and a config that is built holds the weights it was given.
C2_WeightSum ==
    made.state # "none" =>
        /\ Abs(total_weight(made.fields) - One) >= Tolerance => made.state = "raised"
        /\ Abs(total_weight(made.fields) - One) < Tolerance => made.error # "weights"
        /\ made.state = "ok" => config = made.fields
        /\ made.state = "raised" => config = DEFAULT_FIELDS

\* C2 witness: a construction refused for a sum exactly 0.001 above 1.0.
C2_Witness ==
    /\ made.state = "raised" /\ made.error = "weights"
    /\ total_weight(made.fields) = One + Tolerance

ThresholdsOf(c) ==
    { c.DEFAULT_MATCH_THRESHOLD, c.HIGH_CONFIDENCE_THRESHOLD, c.MEDIUM_CONFIDENCE_THRESHOLD }

\* C3: construction raises whenever one of the three thresholds (match, high
\* confidence, medium confidence) is outside [0,1], so every config that was
\* built has all three in [0,1].
C3_ThresholdsValidated ==
    /\ (made.state # "none" /\ \E t \in ThresholdsOf(made.fields) : t < 0 \/ t > One)
          => made.state = "raised"
    /\ made.state = "ok" => \A t \in ThresholdsOf(config) : 0 <= t /\ t <= One

WeightsOf(c) ==
    { c.COLOR_WEIGHT, c.SIFT_WEIGHT, c.SSIM_WEIGHT, c.EDGE_WEIGHT, c.SHAPE_WEIGHT }

\* C4: every config that was built has five non-negative weights.
C4_NonNegativeWeights ==
    made.state = "ok" => \A w \in WeightsOf(config) : w >= 0

\* The weighted sum of the five metric scores under the held config, each
\* metric once, clamped to [0,1].
C5_Expected ==
    LET sum == ColorSimilarity(cv.Color) * config.COLOR_WEIGHT
               + SIFTSimilarity(cv.SIFT) * config.SIFT_WEIGHT
               + SSIMSimilarity(cv.SSIM) * config.SSIM_WEIGHT
               + EdgeSimilarity(cv.Edge) * config.EDGE_WEIGHT
               + ShapeSimilarity(cv.Shape) * config.SHAPE_WEIGHT
    IN  IF sum < 0 THEN 0 ELSE IF sum > One * One THEN One * One ELSE sum

\* C5: for a decodable pair on which the five metric scores are computed,
\* calculate_similarity returns the clamped sum over the five metrics of
\* score * weight, with the weights of the calculator's own config.
C5_WeightedSum ==
    (DecodableCall("calculate_similarity") /\ AllExtracted) =>
        last.result = C5_Expected

\* C5 witness: a score strictly between 0 and 1 computed under weights that
\* are not the defaults.
C5_Witness ==
    /\ DecodableCall("calculate_similarity") /\ AllExtracted
    /\ WeightsOf(config) # WeightsOf(DEFAULT_FIELDS)
    /\ 0 < last.result /\ last.result < One * One

\* The weighted sum in which a metric whose extractor failed, in
\* extract_features or in calculate_similarity, counts 0.0.
C6_Expected ==
    LET part(ok, score, weight) == IF ok THEN score * weight ELSE 0
        sum == part(cv.Color.extract, ColorSimilarity(cv.Color), config.COLOR_WEIGHT)
               + part(cv.SIFT.extract, SIFTSimilarity(cv.SIFT), config.SIFT_WEIGHT)
               + part(cv.SSIM.extract, SSIMSimilarity(cv.SSIM), config.SSIM_WEIGHT)
               + part(cv.Edge.extract, EdgeSimilarity(cv.Edge), config.EDGE_WEIGHT)
               + ShapeSimilarity(cv.Shape) * config.SHAPE_WEIGHT
    IN  IF sum < 0 THEN 0 ELSE IF sum > One * One THEN One * One ELSE sum

\* C6: when one extractor fails on a decodable pair, while extracting or while
\* comparing, that metric contributes 0.0 and the aggregate is still the
\* weighted sum of the other four.
C6_FailureIsolated ==
    (DecodableCall("calculate_similarity") /\ cv.resize) =>
        last.result = C6_Expected

\* C7: a compare_images call with a missing path returns an error dict,
\* invokes no calculator method, and leaves the config, the construction
\* record and the files' contents as they were.
C7_MissingFile ==
    [][ (last'.op = "compare_images" /\ (~ exists(last'.path1) \/ ~ exists(last'.path2)))
          => /\ "error" \in DOMAIN last'.result
             /\ last'.calls = <<>>
             /\ config' = config /\ made' = made /\ cv' = cv ]_vars

\* C7 witness: compare_images("ref.jpg", "does_not_exist.jpg") returned an error.
C7_Witness ==
    /\ last.op = "compare_images"
    /\ exists(last.path1) /\ ~ exists(last.path2)
    /\ "error" \in DOMAIN last.result /\ last.calls = <<>>

\* C8: when both paths exist and one file does not decode, compare_images
\* returns a dict carrying an "error" key.
C8_UndecodableIsError ==
    ( /\ last.op = "compare_images"
      /\ exists(last.path1) /\ exists(last.path2)
      /\ (~ imread(last.path1) \/ ~ imread(last.path2)) )
        => "error" \in DOMAIN last.result

\* A file is missing or undecodable, or preprocessing or an extraction throws.
C9_Failing ==
    \/ ~ exists(last.path1) \/ ~ exists(last.path2)
    \/ ~ imread(last.path1) \/ ~ imread(last.path2)
    \/ ~ AllExtracted

\* C9: in each of those cases calculate_similarity returns 0.0 and
\* get_detailed_analysis returns an error dict; neither raises.
C9_CalculatorBoundary ==
    /\ (last.op = "calculate_similarity" /\ C9_Failing) => last.result = 0
    /\ (last.op = "get_detailed_analysis" /\ C9_Failing) => "error" \in DOMAIN last.result

\* C9 witness: a detailed analysis of a decodable pair on which an extractor
\* threw while every other metric was high.
C9_Witness ==
    /\ DecodableCall("get_detailed_analysis")
    /\ cv.resize /\ ~ cv.SIFT.extract
    /\ "error" \in DOMAIN last.result

\* C10: in a non-error report is_match is (aggregate >= threshold in force),
\* match_status is "MATCH" exactly when is_match, and the threshold in force is
\* the caller's whenever one is given (0.0 included), else the config's default.
C10_MatchDecision ==
    (last.op = "compare_images" /\ NonError) =>
        LET th == IF last.threshold = <<>> THEN config.DEFAULT_MATCH_THRESHOLD
                  ELSE last.threshold[1]
        IN  /\ last.result.threshold = th
            /\ last.result.is_match = (last.aggregate >= th * One)
            /\ last.result.match_status = IF last.result.is_match THEN "MATCH" ELSE "NO MATCH"

\* C10 witness: a caller's threshold of 0.0 under a config whose default is
\* higher, and an aggregate below that default reported as a match.
C10_Witness ==
    /\ last.op = "compare_images" /\ NonError
    /\ last.threshold = <<0>> /\ config.DEFAULT_MATCH_THRESHOLD > 0
    /\ last.aggregate < config.DEFAULT_MATCH_THRESHOLD * One
    /\ last.result.is_match /\ last.result.match_status = "MATCH"

\* The last call is a compare_images that returned a report.
Report == last.op = "compare_images" /\ NonError

\* The held config is one the data model allows: non-negative weights and the
\* three thresholds in [0,1].
WellFormedConfig ==
    /\ \A w \in WeightsOf(config) : w >= 0
    /\ \A t \in ThresholdsOf(config) : 0 <= t /\ t <= One

\* The band of an aggregate a: Very High from 0.75 up, High on [0.6, 0.75),
\* Medium on [0.4, 0.6), Low on [0.25, 0.4), Very Low below 0.25.
C11_Band(a) ==
    IF a >= 7500 * One THEN "Very High"
    ELSE IF a >= 6000 * One THEN "High"
    ELSE IF a >= 4000 * One THEN "Medium"
    ELSE IF a >= 2500 * One THEN "Low"
    ELSE "Very Low"

\* C11: for every aggregate in [0,1], 1.0 included, the interpretation label
\* of the report is the band of the aggregate.
C11_Interpretation ==
    (Report /\ WellFormedConfig) =>
        /\ last.result.interpretation = C11_Band(last.aggregate)
        /\ last.result.analysis.interpretation = C11_Band(last.aggregate)

\* The confidence label under the thresholds of a config c.
C12_Label(c, a) ==
    IF a >= c.HIGH_CONFIDENCE_THRESHOLD * One THEN "High"
    ELSE IF a >= c.MEDIUM_CONFIDENCE_THRESHOLD * One THEN "Medium"
    ELSE "Low"

\* C12: the confidence label of a report is taken under the high- and
\* medium-confidence thresholds of the config the analyzer was built with
\* (stated for configs whose thresholds all lie in [0,1]).
C12_Confidence ==
    (Report /\ WellFormedConfig) =>
        /\ last.result.confidence = C12_Label(config, last.aggregate)
        /\ last.result.analysis.confidence = C12_Label(config, last.aggregate)

\* A report made under the default config.
DefaultReport == Report /\ config = DEFAULT_FIELDS

\* C13 as stated: under the default config a matching report has risk "Low"
\* from 0.75 up, "Low to Medium" on [0.45, 0.75) and "High" below 0.45.
C13_MatchRiskStated ==
    (DefaultReport /\ last.result.is_match) =>
        last.result.analysis.counterfeit_risk =
            IF last.aggregate >= 7500 * One THEN "Low"
            ELSE IF last.aggregate >= 4500 * One THEN "Low to Medium"
            ELSE "High"

\* C13 amended: under the default config a matching report has risk "Low"
\* from 0.75 up and "Low to Medium" for every aggregate below 0.75.
C13_MatchRisk ==
    (DefaultReport /\ last.result.is_match) =>
        last.result.analysis.counterfeit_risk =
            IF last.aggregate >= 7500 * One THEN "Low" ELSE "Low to Medium"

\* C13 witness: a match declared on an aggregate below 0.45 (the caller's
\* threshold is lower still), with risk "Low to Medium".
C13_Witness ==
    /\ DefaultReport /\ last.result.is_match
    /\ last.aggregate < 4500 * One
    /\ last.result.analysis.counterfeit_risk = "Low to Medium"

\* C14 as stated: under the default config a non-matching report has risk
\* "Medium" and the needs-verification recommendation from 0.4 up, "High" below.
C14_NoMatchRiskStated ==
    (DefaultReport /\ ~ last.result.is_match) =>
        /\ last.result.analysis.counterfeit_risk =
              IF last.aggregate >= 4000 * One THEN "Medium" ELSE "High"
        /\ last.aggregate >= 4000 * One =>
              last.result.analysis.recommendation =
                  "Some similarities found - Needs verification"

\* C14 amended: the cut point is the medium-confidence threshold 0.45, not 0.4:
\* a non-matching report has risk "Medium" and the needs-verification
\* recommendation from 0.45 up, and risk "High" below 0.45.
C14_NoMatchRisk ==
    (DefaultReport /\ ~ last.result.is_match) =>
        /\ last.result.analysis.counterfeit_risk =
              IF last.aggregate >= 4500 * One THEN "Medium" ELSE "High"
        /\ last.aggregate >= 4500 * One =>
              last.result.analysis.recommendation =
                  "Some similarities found - Needs verification"

\* C14 witness: a non-match on an aggregate in [0.4, 0.45), with risk "High".
C14_Witness ==
    /\ DefaultReport /\ ~ last.result.is_match
    /\ 4000 * One <= last.aggregate /\ last.aggregate < 4500 * One
    /\ last.result.analysis.counterfeit_risk = "High"

\* The last call is a get_counterfeit_detection_insights on a report.
VerdictOnReport ==
    /\ last.op = "get_counterfeit_detection_insights"
    /\ "error" \notin DOMAIN last.report

\* The actions that go with each verdict.
C15_Actions(verdict) ==
    IF verdict = "LIKELY AUTHENTIC"
    THEN << "Use as reference for authentication",
            "Compare with official product images",
            "Verify serial numbers and markings" >>
    ELSE IF verdict = "NEEDS VERIFICATION"
    THEN << "Check for differences in brand markings",
            "Compare color variations carefully",
            "Examine quality details and stitching",
            "Verify with official brand website" >>
    ELSE << "Verify with official brand website",
            "Check for authentication certificates",
            "Compare with known authentic examples",
            "Consider professional authentication" >>

C16_LowAggregateSuspicious ==
    ( /\ VerdictOnReport
      /\ config = DEFAULT_FIELDS
      /\ last.report.threshold = DEFAULT_FIELDS.DEFAULT_MATCH_THRESHOLD
      /\ last.aggregate < 3000 * One )
        => /\ ~ last.report.is_match
           /\ last.report.analysis.counterfeit_risk = "High"
           /\ last.result.verdict = "SUSPICIOUS"

\* The comparison of element e fails: it is not a pair, or one of its files is
\* missing or does not decode.
ElementFails(e) ==
    \/ Len(e) # 2
    \/ \E k \in 1..2 : ~ exists(e[k]) \/ ~ imread(e[k])

\* C17: batch_compare returns normally for every input list, with one entry
\* per element in input order, entry i carrying pair_index = i; the entry of an
\* element whose comparison fails (missing file, undecodable file, exception
\* while handling it) is an error entry and every other entry is the full
\* report of its pair.
C17_BatchIsolation ==
    last.op = "batch_compare" =>
        /\ ~ last.result.raised
        /\ LET es == last.result.results.comparisons
           IN  /\ Len(es) = Len(last.image_pairs)
               /\ \A i \in 1..Len(es) :
                     /\ es[i].pair_index = i - 1
                     /\ ElementFails(last.image_pairs[i]) <=> "error" \in DOMAIN es[i]
                     /\ ~ ElementFails(last.image_pairs[i]) =>
                           es[i] = with_pair_index(
                                     compare_images(config, last.image_pairs[i][1],
                                                    last.image_pairs[i][2],
                                                    last.threshold).result,
                                     i - 1)

\* The last call is a batch_compare that returned.
BatchReturned ==
    /\ last.op = "batch_compare"
    /\ ~ last.result.raised

\* The entries of xs that satisfy Test.
CountWhere(xs, Test(_)) == Cardinality({ i \in 1..Len(xs) : Test(xs[i]) })

IsErrorEntry(e) == "error" \in DOMAIN e
IsMatchEntry(e) == "error" \notin DOMAIN e /\ e.is_match
IsNoMatchEntry(e) == "error" \notin DOMAIN e /\ ~ e.is_match

\* C18: in every result batch_compare returns, total_comparisons = number of
\* input pairs = number of entries = matches + no_matches + errors, where
\* errors counts the entries with an 'error' key, matches the non-error
\* entries with is_match true and no_matches those with is_match false.
C18_BatchCounts ==
    BatchReturned =>
        LET r == last.result.results
        IN  /\ r.total_comparisons = Len(last.image_pairs)
            /\ r.total_comparisons = Len(r.comparisons)
            /\ r.total_comparisons = r.matches + r.no_matches + r.errors
            /\ r.errors = CountWhere(r.comparisons, IsErrorEntry)
            /\ r.matches = CountWhere(r.comparisons, IsMatchEntry)
            /\ r.no_matches = CountWhere(r.comparisons, IsNoMatchEntry)

\* C18 witness: a returned batch holding an error entry next to a matching
\* entry.
C18_Witness ==
    /\ BatchReturned
    /\ last.result.results.errors = 1
    /\ last.result.results.matches = 1
    /\ Len(last.result.results.comparisons) = 2

\* The second image of the pair is a uniform buffer: no descriptors, no edge
\* pixels, no contour; the first is a valid image with edges.
C19_Degenerate ==
    /\ AllExtracted
    /\ cv.SIFT.len2 = 0 /\ cv.Shape.len2 = 0
    /\ cv.Edge.densityOk /\ cv.Edge.density2 = 0 /\ cv.Edge.density1 > 0

\* C19: comparing a valid image against a degenerate 1x1 image returns,
\* without raising, a report whose aggregate score is exactly 0.0.
C19_DegenerateIsZero ==
    ( /\ DecodableCall("compare_images")
      /\ config = DEFAULT_FIELDS
      /\ C19_Degenerate )
        => /\ NonError
           /\ last.aggregate = 0
           /\ last.result.similarity_score = 0

\* The pair is a non-degenerate image and its exact copy: all features are
\* extracted and coincide (full correlations, at least 2 descriptors at
\* average distance 0, equal edge maps, equal Hu moments of a contour).
C20_Identical ==
    /\ AllExtracted
    /\ cv.Color.compare
    /\ \A k \in 1..3 : cv.Color.bgr[k] = One /\ cv.Color.hsv[k] = One
    /\ cv.SIFT.len1 = cv.SIFT.len2 /\ cv.SIFT.len1 >= 2
    /\ cv.SIFT.dist.ok /\ cv.SIFT.dist.ratio = 0
    /\ cv.SSIM.compare /\ cv.SSIM.corr = One
    /\ cv.Edge.densityOk /\ cv.Edge.density1 = cv.Edge.density2
    /\ cv.Shape.len1 = cv.Shape.len2 /\ cv.Shape.len1 >= 1 /\ cv.Shape.distance = 0

\* C20: comparing a non-degenerate image with an exact copy of itself gives,
\* under every config that passed construction, an aggregate >= 0.95, each
\* of the five metrics being reported at its maximum 1.0.
C20_Identity ==
    (DecodableCall("compare_images") /\ C20_Identical) =>
        /\ NonError
        /\ last.aggregate >= 9500 * One
        /\ \A n \in MetricNames : last.result.detailed_scores[n] = One

\* C20 witness: an image compared with its copy under a config whose weights
\* differ from the defaults.
C20_Witness ==
    /\ DecodableCall("compare_images") /\ C20_Identical
    /\ config.SIFT_WEIGHT # DEFAULT_FIELDS.SIFT_WEIGHT
    /\ NonError
    /\ last.aggregate >= 9500 * One

\* The answer recorded in the call record l is the one the operation gives on
\* its arguments under the config c the analyzer was built with, whatever
\* calls came before.
C21_SameAnswer(l, c) ==
    /\ l.op = "calculate_similarity" =>
          l.result = calculate_similarity(c, l.path1, l.path2)
    /\ l.op = "get_detailed_analysis" =>
          l.result = get_detailed_analysis(c, l.path1, l.path2)
    /\ l.op = "compare_images" =>
          l.result = compare_images(c, l.path1, l.path2, l.threshold).result
    /\ l.op = "batch_compare" =>
          l.result = batch_compare(c, l.image_pairs, l.threshold)
    /\ l.op = "get_counterfeit_detection_insights" =>
          l.result = get_counterfeit_detection_insights(l.report)

\* C21: no call of the engine (calculate_similarity, get_detailed_analysis,
\* compare_images, batch_compare, get_counterfeit_detection_insights) changes
\* the configuration, the analyzer or the files, and each call's result is
\* the same whatever calls preceded it.
C21_Stateless ==
    [][ made.state = "ok" =>
          /\ config' = config /\ made' = made /\ cv' = cv
          /\ config' = made.fields
          /\ C21_SameAnswer(last', made.fields) ]_vars

\* C21 witness: a verdict call, which follows a compare_images, on an
\* analyzer that still holds the config it was built with.
C21_Witness ==
    /\ made.state = "ok"
    /\ last.op = "get_counterfeit_detection_insights"
    /\ "verdict" \in DOMAIN last.result
    /\ last.report.threshold = 7000
    /\ config = made.fields

\* C22: a SimilarityConfig cannot be changed after construction, so the
\* config held by the analyzer, its calculator and the extractors is always
\* the one that was constructed and its weights sum to 1.0 within 0.001.
C22_Immutable ==
    made.state = "ok" =>
        /\ config = made.fields
        /\ Abs(total_weight(config) - One) <= Tolerance

\* The largest element of a set of scores, 0.0 for the empty set.
C23_MaxOrZero(S) == IF S = {} THEN 0 ELSE CHOOSE x \in S : \A y \in S : y <= x

\* The score of a ratio-test strategy that ran on matches m.
C23_RatioScore(m, ratio) ==
    LET good == Cardinality({ i \in DOMAIN m : Len(m[i]) = 2 /\ m[i][1] * One < ratio * m[i][2] })
        q == (good * One) \div (IF cv.SIFT.len1 < cv.SIFT.len2 THEN cv.SIFT.len1 ELSE cv.SIFT.len2)
    IN  IF q > One THEN One ELSE q

\* The scores of the Keypoint strategies that did not throw.
C23_KeypointScores ==
    (IF cv.SIFT.flann.ok THEN {C23_RatioScore(cv.SIFT.flann.matches, SIFT_LOWE_RATIO_FLANN)} ELSE {})
    \cup (IF cv.SIFT.bf.ok THEN {C23_RatioScore(cv.SIFT.bf.matches, SIFT_LOWE_RATIO_BF)} ELSE {})
    \cup (IF cv.SIFT.dist.ok
          THEN {IF One - cv.SIFT.dist.ratio < 0 THEN 0 ELSE One - cv.SIFT.dist.ratio}
          ELSE {})

\* The scores of the Edge sub-measures that did not throw.
C23_EdgeScores ==
    LET pos(x) == IF x < 0 THEN 0 ELSE x
    IN  (IF cv.Edge.tm.ok THEN {pos(cv.Edge.tm.v)} ELSE {})
        \cup (IF cv.Edge.hist.ok THEN {pos(cv.Edge.hist.v)} ELSE {})
        \cup (IF cv.Edge.densityOk
              THEN {pos(One - Abs(cv.Edge.density1 - cv.Edge.density2))}
              ELSE {})

\* The last call is a get_detailed_analysis that reported the five scores.
DetailedScores ==
    /\ DecodableCall("get_detailed_analysis")
    /\ NonError

\* C23: in the Keypoint and the Edge extractor a strategy or sub-measure that
\* throws is skipped; the score is the maximum over those that succeeded, and
\* 0.0 when all of them failed.
C23_SkipFailedStrategies ==
    DetailedScores =>
        /\ (cv.SIFT.len1 >= 2 /\ cv.SIFT.len2 >= 2) =>
              last.result.individual_scores["SIFT"]
                 = Round3(C23_MaxOrZero(C23_KeypointScores), One)
        /\ last.result.individual_scores["Edge"]
              = Round3(C23_MaxOrZero(C23_EdgeScores), One)

\* C23 witness: both correlation sub-measures of the Edge extractor threw and
\* the density measure alone gave the score.
C23_Witness ==
    /\ DetailedScores
    /\ ~ cv.Edge.tm.ok /\ ~ cv.Edge.hist.ok /\ cv.Edge.densityOk
    /\ last.result.individual_scores["Edge"] = One - Abs(cv.Edge.density1 - cv.Edge.density2)
    /\ last.result.individual_scores["Edge"] > 0

\* What a ratio-test strategy may append for the knn result m: nothing when no
\* match passes the test, else min(1.0, good / min(count1, count2)).
C24_Contribution(m, ratio) ==
    LET good == apply_lowe_ratio_test(m.matches, ratio)
        min_keypoints == Min2(cv.SIFT.len1, cv.SIFT.len2)
    IN  IF good = 0 THEN <<>>
        ELSE << IF good * One >= One * min_keypoints THEN One
                ELSE (good * One) \div min_keypoints >>

\* C24: with fewer than 2 descriptors on either side (or none) the Keypoint
\* score is exactly 0.0 and no strategy is run; otherwise each ratio-test
\* strategy contributes min(1.0, good_matches / min(count1, count2)), whose
\* divisor is not zero.
C24_KeypointGuard ==
    DetailedScores =>
        IF cv.SIFT.len1 < 2 \/ cv.SIFT.len2 < 2
        THEN last.result.individual_scores["SIFT"] = 0
        ELSE /\ Min2(cv.SIFT.len1, cv.SIFT.len2) # 0
             /\ cv.SIFT.flann.ok =>
                   /\ RatioStrategy(cv.SIFT.flann, SIFT_LOWE_RATIO_FLANN,
                                    cv.SIFT.len1, cv.SIFT.len2)
                         = C24_Contribution(cv.SIFT.flann, SIFT_LOWE_RATIO_FLANN)
                   /\ \A k \in DOMAIN C24_Contribution(cv.SIFT.flann, SIFT_LOWE_RATIO_FLANN) :
                         last.result.individual_scores["SIFT"]
                            >= Round3(C24_Contribution(cv.SIFT.flann, SIFT_LOWE_RATIO_FLANN)[k], One)
             /\ cv.SIFT.bf.ok =>
                   /\ RatioStrategy(cv.SIFT.bf, SIFT_LOWE_RATIO_BF,
                                    cv.SIFT.len1, cv.SIFT.len2)
                         = C24_Contribution(cv.SIFT.bf, SIFT_LOWE_RATIO_BF)
                   /\ \A k \in DOMAIN C24_Contribution(cv.SIFT.bf, SIFT_LOWE_RATIO_BF) :
                         last.result.individual_scores["SIFT"]
                            >= Round3(C24_Contribution(cv.SIFT.bf, SIFT_LOWE_RATIO_BF)[k], One)

\* C24 witness: one descriptor on the first image, matchers that would have
\* succeeded, and a Keypoint score of 0.0.
C24_Witness ==
    /\ DetailedScores
    /\ cv.SIFT.len1 < 2 /\ cv.SIFT.flann.ok /\ cv.SIFT.dist.ok
    /\ last.result.individual_scores["SIFT"] = 0

\* The best (largest) of the three channel correlations of a colour space.
C25_Best(corr) == CHOOSE x \in {corr[k] : k \in 1..3} : \A k \in 1..3 : corr[k] <= x

\* C25: the Color score is max(0, min(best native-space correlation, best HSV
\* correlation)): the two spaces are combined by minimum and a negative
\* result becomes 0.
C25_ColorMinOfBest ==
    (DetailedScores /\ cv.Color.compare) =>
        LET native == C25_Best(cv.Color.bgr)
            hsv == C25_Best(cv.Color.hsv)
            lower == IF native <= hsv THEN native ELSE hsv
        IN  last.result.individual_scores["Color"]
               = Round3(IF lower < 0 THEN 0 ELSE lower, One)

\* C25 witness: the best HSV correlation is below the best native one and is
\* the reported Color score.
C25_Witness ==
    /\ DetailedScores /\ cv.Color.compare
    /\ 0 < C25_Best(cv.Color.hsv)
    /\ C25_Best(cv.Color.hsv) < C25_Best(cv.Color.bgr)
    /\ last.result.individual_scores["Color"] = C25_Best(cv.Color.hsv)

\* C26: for any threshold in [0,1], compare_images never reports a match for
\* a pair in which an image could not be decoded (aggregate forced to 0.0).
C26_NoMatchOnUndecodable ==
    ( /\ last.op = "compare_images"
      /\ WellFormedConfig
      /\ exists(last.path1) /\ exists(last.path2)
      /\ ~ imread(last.path1) \/ ~ imread(last.path2)
      /\ NonError )
        => /\ ~ last.result.is_match
           /\ last.result.match_status = "NO MATCH"

\* C27: in every non-error report is_match equals (similarity_score >=
\* threshold) evaluated on the similarity_score published in the report.
C27_PublishedFieldsAgree ==
    (DecodableCall("compare_images") /\ NonError /\ WellFormedConfig) =>
        (last.result.is_match
            <=> last.result.similarity_score >= last.result.threshold * One)

\* The report the verdict was given on came from a pair of decodable files
\* on which every feature was extracted.
C28_DecodableReport ==
    /\ VerdictOnReport
    /\ imread(last.report.image1.path) /\ imread(last.report.image2.path)
    /\ AllExtracted

\* C28: for every non-error report produced with a threshold in [0,1], the
\* verdict is LIKELY AUTHENTIC only if is_match is true and SUSPICIOUS only
\* if is_match is false.
C28_VerdictAgreesWithMatch ==
    ( /\ C28_DecodableReport
      /\ config = DEFAULT_FIELDS
      /\ 0 <= last.report.threshold /\ last.report.threshold <= One )
        => /\ last.result.verdict = "LIKELY AUTHENTIC" => last.report.is_match
           /\ last.result.verdict = "SUSPICIOUS" => ~ last.report.is_match

\* /criteria has stored criteria for the task.
CriteriaFetched(task) ==
    /\ "criteria" \in DOMAIN task
    /\ task.criteria # None

\* Thread c takes up an /analyze request in this step.
AnalyzeArrives(c) ==
    /\ clients[c].pc = "idle"
    /\ clients'[c] # clients[c]
    /\ clients'[c].kind = "analyze"

\* C29: /analyze on an existing detection, of any item type, whose criteria
\* were not yet fetched is answered 400 'Criteria not fetched yet' and leaves
\* DETECT_TASKS unchanged; a task holds an analysis_result only if its
\* criteria were stored.
C29_AnalyzeNeedsCriteria ==
    [][ /\ \A c \in Clients :
              ( /\ AnalyzeArrives(c)
                /\ clients'[c].id \in DOMAIN DETECT_TASKS
                /\ ~ CriteriaFetched(DETECT_TASKS[clients'[c].id]) )
                  => /\ clients'[c].resp
                           = Response(400, [error |-> "Criteria not fetched yet"])
                     /\ DETECT_TASKS' = DETECT_TASKS
        /\ \A id \in DOMAIN DETECT_TASKS' :
              "analysis_result" \in DOMAIN DETECT_TASKS'[id]
                 => CriteriaFetched(DETECT_TASKS'[id]) ]_vars

\* All three of criteria, location_angle and detailed_criteria are stored.
CriteriaStored(task) ==
    /\ CriteriaFetched(task)
    /\ task.location_angle # None
    /\ task.detailed_criteria # None

\* C30: once a /criteria request has stored criteria, location_angle and
\* detailed_criteria for a detection, no later /criteria request for it,
\* sequential or concurrent and with any brand, overwrites or regenerates
\* them, and each returns the stored values.
C30_CriteriaWrittenOnce ==
    [][ \A id \in DOMAIN DETECT_TASKS :
          CriteriaStored(DETECT_TASKS[id]) =>
             /\ DETECT_TASKS'[id].criteria = DETECT_TASKS[id].criteria
             /\ DETECT_TASKS'[id].location_angle = DETECT_TASKS[id].location_angle
             /\ DETECT_TASKS'[id].detailed_criteria = DETECT_TASKS[id].detailed_criteria
             /\ \A c \in Clients :
                   /\ (clients[c].pc = "get_criteria" /\ clients[c].id = id)
                         => clients'[c].pc # "store_criteria"
                   /\ (clients[c].pc = "respond" /\ clients[c].id = id
                       /\ clients'[c].pc = "idle")
                         => /\ clients'[c].resp[1].body.location_angle
                                  = DETECT_TASKS[id].location_angle
                            /\ clients'[c].resp[1].body.detailed_criteria
                                  = DETECT_TASKS[id].detailed_criteria ]_vars

====
